---------------------------- MODULE Spec2Model ----------------------------
(***************************************************************************)
(* Model of main.py of voyage_data_emails: process_emails pulls the        *)
(* messages of an inbox one at a time, process_message classifies each     *)
(* against the ordered list of CSV file types, ensures the target table    *)
(* and hands the message to a VoyageEmailParser, which archives the CSV    *)
(* and inserts one row per CSV record.                                     *)
(*                                                                         *)
(* Python dicts are functions with string domains (a key is present iff it *)
(* is in the DOMAIN); Python lists are sequences.  Text that the code      *)
(* takes apart (regular expressions, format templates, dates) is a         *)
(* sequence of pieces, so that matching, formatting and parsing are        *)
(* computed and can fail.                                                  *)
(***************************************************************************)
EXTENDS Integers, Sequences, FiniteSets, TLC

\* ------------------------------------------------------------------ bounds

\* Longest list of CSV file types in the configuration.
MaxTypes == 2

\* Most messages the mail collaborator yields in one run.
MaxInbox == 2

\* ------------------------------------------------------- values and helpers

\* An optional value is a sequence of at most one element.
None == <<>>

Some(v) == <<v>>

EmptyDict == <<>>

\* The assignment that keeps the value a key already has.
DictSetKeepsFirst(d, key, value) == d @@ (key :> value)

\* d[key] = value on a Python dict.
DictSet(d, key, value) == (key :> value) @@ d

\* All sequences over S of length 0..n.
SeqsUpTo(S, n) == UNION {[1..len -> S] : len \in 0..n}

\* A sequence without repetitions.
Distinct(s) == \A x, y \in DOMAIN s : x # y => s[x] # s[y]

\* -------------------------------------------------- library functions used

\* A whitespace piece of a template.
IsSpace(piece) == piece = " "

RECURSIVE LStrip(_)
LStrip(s) ==
    IF s # <<>> /\ IsSpace(Head(s)) THEN LStrip(Tail(s)) ELSE s

RECURSIVE RStrip(_)
RStrip(s) ==
    IF s # <<>> /\ IsSpace(s[Len(s)]) THEN RStrip(SubSeq(s, 1, Len(s) - 1)) ELSE s

\* str.strip(): leading and trailing whitespace removed.
Strip(s) == RStrip(LStrip(s))

\* A replacement field {name} of a format template.
IsField(piece) == piece \in {"{voyage_id}", "{ship}"}

FieldName(piece) ==
    CASE piece = "{voyage_id}" -> "voyage_id"
      [] piece = "{ship}" -> "ship"

\* str.format(**values): every replacement field is looked up in values; a
\* field that values lacks raises KeyError.  The result is the sequence of
\* the pieces with the fields replaced.
FormatRaises(template, values) ==
    \E x \in DOMAIN template :
        IsField(template[x]) /\ FieldName(template[x]) \notin DOMAIN values

Format(template, values) ==
    [x \in DOMAIN template |->
        IF IsField(template[x]) THEN values[FieldName(template[x])]
        ELSE template[x]]

\* Words that the character class of a capture group accepts (digits).
Numerals == {"1", "2"}

\* A named capture group (?P<name>[0-9]+) of a regular expression.
IsGroup(token) == token \in {"(?P<voyage_id>[0-9]+)"}

GroupName(token) == "voyage_id"

\* ''.join(list): the fragments concatenated.
RECURSIVE Join(_)
Join(fragments) ==
    IF fragments = <<>> THEN <<>> ELSE Head(fragments) \o Join(Tail(fragments))

\* re.compile(text): the compiled pattern keeps the token sequence.
ReCompile(tokens) == [pattern |-> tokens]

\* regex.match(subject): the pattern must match a prefix of the subject
\* (match anchors at the start only); None otherwise.
RegexMatches(regex, subject) ==
    /\ Len(regex.pattern) <= Len(subject)
    /\ \A x \in DOMAIN regex.pattern :
        IF IsGroup(regex.pattern[x]) THEN subject[x] \in Numerals
        ELSE subject[x] = regex.pattern[x]

\* match.groupdict(): the named groups with the text each matched.
RECURSIVE GroupDictFrom(_, _, _)
GroupDictFrom(tokens, subject, x) ==
    IF x > Len(tokens) THEN EmptyDict
    ELSE IF IsGroup(tokens[x])
         THEN DictSet(GroupDictFrom(tokens, subject, x + 1),
                      GroupName(tokens[x]), subject[x])
         ELSE GroupDictFrom(tokens, subject, x + 1)

GroupDict(regex, subject) == GroupDictFrom(regex.pattern, subject, 1)

\* The characters of the CSV texts that occur in the model.
Chars(text) ==
    CASE text = "2024-03-01" -> <<"2", "0", "2", "4", "-", "0", "3", "-", "0", "1">>
      [] text = "2024-3-1" -> <<"2", "0", "2", "4", "-", "3", "-", "1">>
      [] text = "2024-13-01" -> <<"2", "0", "2", "4", "-", "1", "3", "-", "0", "1">>
      [] text = "not-a-date" -> <<"n", "o", "t", "-", "a", "-", "d", "a", "t", "e">>
      [] text = "-66.3" -> <<"-", "6", "6", ".", "3">>
      [] text = "12.5" -> <<"1", "2", ".", "5">>
      [] text = "x" -> <<"x">>

Digits == {"0", "1", "2", "3", "4", "5", "6", "7", "8", "9"}

DigitValue(c) ==
    CASE c = "0" -> 0 [] c = "1" -> 1 [] c = "2" -> 2 [] c = "3" -> 3
      [] c = "4" -> 4 [] c = "5" -> 5 [] c = "6" -> 6 [] c = "7" -> 7
      [] c = "8" -> 8 [] c = "9" -> 9

\* Number of leading digits of cs, at most most.
RECURSIVE LeadingDigits(_, _)
LeadingDigits(cs, most) ==
    IF most = 0 \/ cs = <<>> \/ Head(cs) \notin Digits THEN 0
    ELSE 1 + LeadingDigits(Tail(cs), most - 1)

RECURSIVE Number(_)
Number(cs) ==
    IF cs = <<>> THEN 0
    ELSE 10 * Number(SubSeq(cs, 1, Len(cs) - 1)) + DigitValue(cs[Len(cs)])

\* A Python str and a Python datetime, as values of a row's fields.
PyStr(text) == [type |-> "str", text |-> text]

PyDateTime(year, month, day) ==
    [type |-> "datetime", year |-> year, month |-> month, day |-> day]

\* datetime.strptime over the directives of the format: %Y takes exactly
\* four digits, %m and %d one or two (greedy) within their ranges, any other
\* piece is a literal; text left over is an error.  [ok |-> FALSE] stands for
\* the ValueError.
RECURSIVE StrptimeFrom(_, _, _)
StrptimeFrom(cs, ds, acc) ==
    IF ds = <<>> THEN [ok |-> cs = <<>>, value |-> acc]
    ELSE IF Head(ds) \in {"%Y", "%m", "%d"}
    THEN LET most == IF Head(ds) = "%Y" THEN 4 ELSE 2
             n == LeadingDigits(cs, most)
             v == Number(SubSeq(cs, 1, n))
             ok == CASE Head(ds) = "%Y" -> n = 4 /\ v >= 1
                     [] Head(ds) = "%m" -> n >= 1 /\ v \in 1..12
                     [] Head(ds) = "%d" -> n >= 1 /\ v \in 1..31
             key == CASE Head(ds) = "%Y" -> "year"
                      [] Head(ds) = "%m" -> "month"
                      [] Head(ds) = "%d" -> "day"
         IN IF ok THEN StrptimeFrom(SubSeq(cs, n + 1, Len(cs)), Tail(ds),
                                    [acc EXCEPT ![key] = v])
            ELSE [ok |-> FALSE, value |-> acc]
    ELSE IF cs # <<>> /\ Head(cs) = Head(ds)
         THEN StrptimeFrom(Tail(cs), Tail(ds), acc)
         ELSE [ok |-> FALSE, value |-> acc]

Strptime(text, format) == StrptimeFrom(Chars(text), format, PyDateTime(1900, 1, 1))

\* ------------------------------------------- inputs: configuration and mail

\* settings.CSV_FOLDER, the folder of the archived CSV files.
CSV_FOLDER == "csv/"

\* os.path.join(CSV_FOLDER, file_name)
PathJoin(folder, file_name) == <<folder>> \o file_name

OpsSender == "ops@carrier.example"

LabSender == "lab@ship.example"

\* subject_regex lists (fragments that process_message joins).
RegexVoyage == << <<"Voyage">>, <<"(?P<voyage_id>[0-9]+)">> >>

RegexReport == << <<"Report">> >>

RegexAny == << >>

\* load_csv.columns of a type: csv_name -> details, in configured order.
ColumnsVoyage ==
    << <<"Date", [field |-> "date", type |-> "datetime",
                  csv_format |-> <<" ", "%Y", "-", "%m", "-", "%d">>]>>,
       <<"Lat", [type |-> "float"]>>,
       <<"Lon", [field |-> "lon"]>> >>

ColumnsPosition ==
    << <<"Date", [type |-> "datetime",
                  csv_format |-> <<"%d", "/", "%m", "/", "%Y">>]>>,
       <<"Lat", [field |-> "pos", type |-> "float"]>>,
       <<"Lon", [field |-> "pos", type |-> "float"]>> >>

ColumnsOverlay ==
    << <<"Lat", [field |-> "pos", type |-> "str"]>>,
       <<"Extra", [field |-> "pos", type |-> "str"]>>,
       <<"Date", [field |-> "pos", type |-> "datetime"]>> >>

\* The CSV file types a configuration is built from.
TypeVoyage ==
    [check |-> [from |-> OpsSender, subject_regex |-> RegexVoyage],
     save_table |-> [file_name_format |-> <<"voyage_", "{voyage_id}">>],
     save_csv |-> [file_name_format |-> <<"{voyage_id}", ".csv", " ">>],
     load_csv |-> [columns |-> ColumnsVoyage]]

\* Accepts every subject of OpsSender; its table is the one TypeVoyage
\* resolves for voyage 1, with another column specification.
TypeAny ==
    [check |-> [from |-> OpsSender, subject_regex |-> RegexAny],
     save_table |-> [file_name_format |-> <<" ", "voyage_", "1">>],
     load_csv |-> [columns |-> ColumnsPosition]]

\* The table name template references a capture the pattern does not define.
TypeBadTable ==
    [check |-> [from |-> LabSender, subject_regex |-> RegexReport],
     save_table |-> [file_name_format |-> <<"voyage_", "{voyage_id}">>],
     save_csv |-> [file_name_format |-> <<"report", ".csv">>],
     load_csv |-> [columns |-> ColumnsVoyage]]

\* No save_table setting.
TypeNoTable ==
    [check |-> [from |-> LabSender, subject_regex |-> RegexAny],
     load_csv |-> [columns |-> ColumnsVoyage]]

\* The archive file name template references an undefined capture.
TypeBadSave ==
    [check |-> [from |-> LabSender, subject_regex |-> RegexReport],
     save_table |-> [file_name_format |-> <<"reports">>],
     save_csv |-> [file_name_format |-> <<"{ship}", ".csv">>],
     load_csv |-> [columns |-> ColumnsOverlay]]

\* No columns setting.
TypeNoColumns ==
    [check |-> [from |-> OpsSender, subject_regex |-> RegexVoyage],
     save_table |-> [file_name_format |-> <<"voyage_", "{voyage_id}">>],
     load_csv |-> [delimiter |-> ","]]

TypeCatalogue ==
    <<TypeVoyage, TypeAny, TypeBadTable, TypeNoTable, TypeBadSave, TypeNoColumns>>

\* The configurations: ordered lists of different types, or None when
\* settings.yaml cannot be read.
Configurations ==
    {Some([x \in DOMAIN pick |-> TypeCatalogue[pick[x]]]) :
        pick \in {s \in SeqsUpTo(DOMAIN TypeCatalogue, MaxTypes) :
                      s # <<>> /\ Distinct(s)}}
    \cup {None}

\* CSV records (column name -> text).
RecordGood == [Date |-> "2024-03-01", Lat |-> "-66.3", Lon |-> "12.5"]

RecordShort == [Date |-> "2024-3-1", Lat |-> "12.5", Lon |-> "-66.3"]

RecordBadDate == [Date |-> "not-a-date", Lat |-> "x", Lon |-> "x"]

RecordSparse == [Lat |-> "-66.3", Extra |-> "x"]

RecordExtra == [Extra |-> "x"]

\* The messages the mail collaborator may yield.
MessageCatalogue ==
    << [From |-> <<"Ops", OpsSender>>, Subject |-> <<"Voyage", "1">>, body |-> "good"],
       [From |-> <<"Ops", OpsSender>>, Subject |-> <<"Voyage", "2", "final">>, body |-> "bad"],
       [From |-> <<"", OpsSender>>, Subject |-> <<"Hello">>, body |-> "sparse"],
       [From |-> <<"Lab", LabSender>>, Subject |-> <<"Report">>, body |-> "sparse"] >>

Inboxes ==
    {[x \in DOMAIN pick |-> MessageCatalogue[pick[x]]] :
        pick \in SeqsUpTo(DOMAIN MessageCatalogue, MaxInbox)}

\* The tables the database holds before the run: an earlier run created the
\* table of the reports, the voyage tables do not exist yet.
InitialTables == <<"reports">> :> ColumnsOverlay

\* email.utils.parseaddr(header): the (name, address) pair of the header.
ParseAddr(header) == header

\* CSVEmailParser.process_message: the CSV text of the message.
MessageContent(msg) == msg.body

\* The CSV-parsing collaborator of CSVEmailParser.process_csv_content: the
\* records of a CSV text, in the order of the text.
CsvRecords(body) ==
    CASE body = "good" -> <<RecordGood, RecordSparse>>
      [] body = "bad" -> <<RecordShort, RecordBadDate, RecordGood>>
      [] body = "sparse" -> <<RecordSparse, RecordExtra>>

\* CSVEmailParser.process_csv_content goes on with the following record
\* after process_csv_row returned.
NextRecord(x) == x + 1

\* -------------------------------------------------------------------- state

VARIABLES
    settings_yaml,   \* what get_csv_file_types() returns: Some(list) or None
    inbox,           \* the messages loop_email_messages() yields, in its order
    database,        \* [tables: name -> columns it was created with,
                     \*  rows: the (table name, fields) pairs inserted]
    files,           \* file system: path -> content
    pc,              \* the statement the run is at
    result,          \* return value of process_emails: None until it returns
    error,           \* exception that left process_emails ("" when none)
    csv_file_types,  \* process_emails: the loaded list (with compiled patterns)
    yielded,         \* number of messages the generator has yielded so far
    message,         \* the message being processed
    email_from,      \* process_message locals
    subject,
    i,               \* position of the for loop over csv_file_types
    match_dict,
    table_name,
    parser,          \* the VoyageEmailParser: [table_name, save_file_path,
                     \*  csv_columns]
    content,         \* CSV text handed to process_csv_content
    k,               \* position of the CSV record being processed
    log              \* every collaborator call and control step, in order

environment == <<settings_yaml, inbox>>

locals == <<email_from, subject, i, match_dict, table_name, parser, content, k>>

vars ==
    <<settings_yaml, inbox, database, files, pc, result, error, csv_file_types,
      yielded, message, email_from, subject, i, match_dict, table_name, parser,
      content, k, log>>

\* The list csv_file_types holds (it is only read after it was loaded).
types == csv_file_types[1]

NoMessage == [From |-> <<"", "">>, Subject |-> <<>>, body |-> ""]

NoParser == [table_name |-> <<>>, save_file_path |-> None, csv_columns |-> <<>>]

\* One entry of the log: the operation, the number of the message it belongs
\* to (0 outside any message), the position of the type it concerns (0 when
\* none), the table or file name, the operation's argument, and whether it
\* succeeded (for a comparison or a match: its outcome).
Event(op, m, t, name, arg, ok) ==
    [op |-> op, m |-> m, t |-> t, name |-> name, arg |-> arg, ok |-> ok]

Init ==
    /\ settings_yaml \in Configurations
    /\ inbox \in Inboxes
    /\ database = [tables |-> InitialTables, rows |-> <<>>]
    /\ files = EmptyDict
    /\ pc = "start"
    /\ result = None
    /\ error = ""
    /\ csv_file_types = None
    /\ yielded = 0
    /\ message = NoMessage
    /\ email_from = ""
    /\ subject = <<>>
    /\ i = 0
    /\ match_dict = EmptyDict
    /\ table_name = <<>>
    /\ parser = NoParser
    /\ content = ""
    /\ k = 0
    /\ log = <<>>

\* ------------------------------------------------------------ process_emails

\* The handler that catches the exception and goes on with the next message.
RaiseCaught(kind) ==
    /\ pc' = "loop"
    /\ error' = kind

\* The handler that catches the exception and processes the message again.
RaiseRetried(kind) ==
    /\ pc' = "process_message"
    /\ error' = kind

\* An exception that reaches the body of process_message: neither
\* process_message nor the loop of process_emails has a try statement, so it
\* leaves process_emails (the with statement closes both clients).
Raise(kind) ==
    /\ pc' = "raised"
    /\ error' = kind

\* with get_database_client() as database, get_email_client() as
\* email_client: email_client.select_inbox()
OpenClients ==
    <<Event("get_database_client", 0, 0, <<>>, <<>>, TRUE),
      Event("get_email_client", 0, 0, <<>>, <<>>, TRUE),
      Event("select_inbox", 0, 0, <<>>, <<>>, TRUE)>>

\* The start that opens the clients and selects the inbox before it looks at
\* the loaded types.
ProcessEmailsStartOpensFirst ==
    /\ pc = "start"
    /\ csv_file_types' = settings_yaml
    /\ IF settings_yaml = None
       THEN /\ pc' = "returned"
            /\ result' = Some(FALSE)
            /\ log' = Append(log \o OpenClients,
                             Event("error", 0, 0, <<>>, <<>>, TRUE))
       ELSE /\ pc' = "loop"
            /\ result' = result
            /\ log' = log \o OpenClients
    /\ UNCHANGED <<environment, database, files, error, yielded, message, locals>>

\* get_csv_file_types(), the None check (logger.error and return False), the
\* two clients and select_inbox().
ProcessEmailsStart ==
    /\ pc = "start"
    /\ csv_file_types' = settings_yaml
    /\ IF settings_yaml = None
       THEN /\ pc' = "returned"
            /\ result' = Some(FALSE)
            /\ log' = Append(log, Event("error", 0, 0, <<>>, <<>>, TRUE))
       ELSE /\ pc' = "loop"
            /\ result' = result
            /\ log' = log \o OpenClients
    /\ UNCHANGED <<environment, database, files, error, yielded, message, locals>>

\* for message in email_client.loop_email_messages(): the next message is
\* fetched and process_message is called with it.
LoopNextMessage ==
    /\ pc = "loop"
    /\ yielded < Len(inbox)
    /\ message' = inbox[yielded + 1]
    /\ yielded' = yielded + 1
    /\ pc' = "process_message"
    /\ log' = Append(log, Event("fetch", yielded + 1, 0, <<>>, <<>>, TRUE))
    /\ UNCHANGED <<environment, database, files, result, error, csv_file_types,
                   locals>>

\* The generator is exhausted: the with block ends and process_emails
\* returns True.
LoopEnd ==
    /\ pc = "loop"
    /\ yielded = Len(inbox)
    /\ pc' = "returned"
    /\ result' = Some(TRUE)
    /\ UNCHANGED <<environment, database, files, error, csv_file_types, yielded,
                   message, locals, log>>

\* ----------------------------------------------------------- process_message

\* The from address and the subject are read from the message and the loop
\* over the types starts.
ProcessMessageEnter ==
    /\ pc = "process_message"
    /\ email_from' = ParseAddr(message.From)[2]
    /\ subject' = message.Subject
    /\ i' = 1
    /\ pc' = "for"
    /\ UNCHANGED <<environment, database, files, result, error, csv_file_types,
                   yielded, message, match_dict, table_name, parser, content, k, log>>

\* The for loop that leaves out every second type.
NextTypeSkips(x) == x + 2

\* continue: the for loop goes on with the next type of the list.
NextType(x) == x + 1

\* The sender check that lets every sender pass.
WrongSenderNever(from, required_from) == FALSE

\* if email_from != required_from
WrongSender(from, required_from) == from # required_from

\* The compiled pattern that is used and not kept in the type.
StoreCompiledForgets(check, subject_regex) == check

\* check['subject_regex_compiled'] = subject_regex (when the entry is there
\* already, the pattern that is stored is the one that was read from it).
StoreCompiled(check, subject_regex) ==
    DictSet(check, "subject_regex_compiled", subject_regex)

\* The iteration that compiles and stores the pattern before it compares
\* the sender.
CheckTypeCompilesFirst ==
    /\ pc = "for"
    /\ i <= Len(types)
    /\ LET csv_type == types[i]
           check == csv_type.check
           required_from == check.from
           cached == "subject_regex_compiled" \in DOMAIN check
           subject_regex ==
               IF cached THEN check.subject_regex_compiled
               ELSE ReCompile(Join(check.subject_regex))
           matched == RegexMatches(subject_regex, subject)
       IN IF WrongSender(email_from, required_from)
          THEN /\ i' = NextType(i)
               /\ log' = Append(log, Event("sender", yielded, i, <<>>, <<>>, FALSE))
               /\ csv_file_types' =
                      Some([types EXCEPT ![i].check =
                               StoreCompiled(check, subject_regex)])
               /\ UNCHANGED <<pc, match_dict>>
          ELSE /\ csv_file_types' =
                      Some([types EXCEPT ![i].check =
                               StoreCompiled(check, subject_regex)])
               /\ log' = log
                      \o <<Event("sender", yielded, i, <<>>, <<>>, TRUE)>>
                      \o (IF cached THEN <<>>
                          ELSE <<Event("compile", yielded, i, <<>>, <<>>, TRUE)>>)
                      \o <<Event("match", yielded, i, <<>>, <<>>, matched)>>
               /\ IF matched
                  THEN /\ match_dict' = GroupDict(subject_regex, subject)
                       /\ pc' = "save_table"
                       /\ i' = i
                  ELSE /\ i' = NextType(i)
                       /\ UNCHANGED <<pc, match_dict>>
    /\ UNCHANGED <<environment, database, files, result, error, yielded, message,
                   email_from, subject, table_name, parser, content, k>>

\* One iteration of the for loop up to the subject check: the sender is
\* compared, the compiled pattern is fetched from the type or compiled and
\* stored in it, and the subject is matched.
CheckType ==
    /\ pc = "for"
    /\ i <= Len(types)
    /\ LET csv_type == types[i]
           check == csv_type.check
           required_from == check.from
           cached == "subject_regex_compiled" \in DOMAIN check
           subject_regex ==
               IF cached THEN check.subject_regex_compiled
               ELSE ReCompile(Join(check.subject_regex))
           matched == RegexMatches(subject_regex, subject)
       IN IF WrongSender(email_from, required_from)
          THEN /\ i' = NextType(i)
               /\ log' = Append(log, Event("sender", yielded, i, <<>>, <<>>, FALSE))
               /\ UNCHANGED <<pc, csv_file_types, match_dict>>
          ELSE /\ csv_file_types' =
                      Some([types EXCEPT ![i].check =
                               StoreCompiled(check, subject_regex)])
               /\ log' = log
                      \o <<Event("sender", yielded, i, <<>>, <<>>, TRUE)>>
                      \o (IF cached THEN <<>>
                          ELSE <<Event("compile", yielded, i, <<>>, <<>>, TRUE)>>)
                      \o <<Event("match", yielded, i, <<>>, <<>>, matched)>>
               /\ IF matched
                  THEN /\ match_dict' = GroupDict(subject_regex, subject)
                       /\ pc' = "save_table"
                       /\ i' = i
                  ELSE /\ i' = NextType(i)
                       /\ UNCHANGED <<pc, match_dict>>
    /\ UNCHANGED <<environment, database, files, result, error, yielded, message,
                   email_from, subject, table_name, parser, content, k>>

\* The end of the for loop that raises instead of returning False.
ReturnFalseRaises ==
    /\ pc = "for"
    /\ i > Len(types)
    /\ pc' = "raised"
    /\ error' = "LookupError"
    /\ UNCHANGED <<environment, database, files, result, csv_file_types, yielded,
                   message, locals, log>>

\* The for loop ran out of types: return False, back in the loop of
\* process_emails, which ignores the value.
ReturnFalse ==
    /\ pc = "for"
    /\ i > Len(types)
    /\ pc' = "loop"
    /\ log' = Append(log, Event("return", yielded, 0, <<>>, <<>>, FALSE))
    /\ UNCHANGED <<environment, database, files, result, error, csv_file_types,
                   yielded, message, locals>>

\* The table name is made from the type's template and the captures; next
\* is the statement that follows.
SaveTableThen(next) ==
    /\ pc = "save_table"
    /\ LET csv_type == types[i]
       IN IF \/ "save_table" \notin DOMAIN csv_type
             \/ "file_name_format" \notin DOMAIN csv_type.save_table
          THEN Raise("KeyError") /\ UNCHANGED table_name
          ELSE LET table_name_format == Strip(csv_type.save_table.file_name_format)
               IN IF FormatRaises(table_name_format, match_dict)
                  THEN Raise("KeyError") /\ UNCHANGED table_name
                  ELSE /\ table_name' = Format(table_name_format, match_dict)
                       /\ pc' = next
                       /\ error' = error
    /\ UNCHANGED <<environment, database, files, result, csv_file_types, yielded,
                   message, email_from, subject, i, match_dict, parser, content, k,
                   log>>

\* The table name is made and the parser is built without the table check.
SaveTableUnchecked == SaveTableThen("parser")

\* The table name that keeps the template as it is when a capture is
\* missing, and goes on to the table check.
SaveTableLenient ==
    /\ pc = "save_table"
    /\ LET csv_type == types[i]
       IN IF \/ "save_table" \notin DOMAIN csv_type
             \/ "file_name_format" \notin DOMAIN csv_type.save_table
          THEN Raise("KeyError") /\ UNCHANGED table_name
          ELSE LET table_name_format == Strip(csv_type.save_table.file_name_format)
               IN /\ table_name' = IF FormatRaises(table_name_format, match_dict)
                                    THEN table_name_format
                                    ELSE Format(table_name_format, match_dict)
                  /\ pc' = "table_exists"
                  /\ error' = error
    /\ UNCHANGED <<environment, database, files, result, csv_file_types, yielded,
                   message, email_from, subject, i, match_dict, parser, content, k,
                   log>>

\* save_table, table_name_format and table_name; the table check follows.
SaveTable == SaveTableThen("table_exists")

\* The check that never finds the table.
TableExistsNever(db, name) == FALSE

\* database.table_exists(name) of a storage that holds what was created.
TableExistsIn(db, name) == name \in DOMAIN db.tables

\* if not database.table_exists(table_name): the call may fail in the storage.
TableExists ==
    /\ pc = "table_exists"
    /\ \E ok \in BOOLEAN :
        /\ log' = Append(log, Event("table_exists", yielded, i, table_name, <<>>, ok))
        /\ IF ok
           THEN /\ pc' = IF TableExistsIn(database, table_name) THEN "parser"
                         ELSE "create_table"
                /\ error' = error
           ELSE Raise("StorageError")
    /\ UNCHANGED <<environment, database, files, result, csv_file_types, yielded,
                   message, locals>>

\* The table is created from the type's column specification.
CreateTable ==
    /\ pc = "create_table"
    /\ LET csv_type == types[i]
       IN IF "columns" \notin DOMAIN csv_type.load_csv
          THEN Raise("KeyError") /\ UNCHANGED <<database, log>>
          ELSE \E ok \in BOOLEAN :
                /\ log' = Append(log, Event("create_table", yielded, i, table_name,
                                            csv_type.load_csv.columns, ok))
                /\ IF ok
                   THEN /\ database' =
                              [database EXCEPT !.tables =
                                  DictSet(@, table_name, csv_type.load_csv.columns)]
                        /\ pc' = "parser"
                        /\ error' = error
                   ELSE Raise("StorageError") /\ UNCHANGED database
    /\ UNCHANGED <<environment, files, result, csv_file_types, yielded, message,
                   locals>>

\* ---------------------------------------------------------- VoyageEmailParser

\* __init__, the try block: the path of the archive file, or None when a
\* KeyError is raised by a missing save_csv or file_name_format setting or by
\* format() on a capture the subject did not give.
SaveFilePath(settings, subject_values) ==
    IF \/ "save_csv" \notin DOMAIN settings
       \/ "file_name_format" \notin DOMAIN settings.save_csv
    THEN None
    ELSE LET file_name_format == Strip(settings.save_csv.file_name_format)
         IN IF FormatRaises(file_name_format, subject_values) THEN None
            ELSE Some(PathJoin(CSV_FOLDER, Format(file_name_format, subject_values)))

\* __init__, the loop over the column settings: [csv_name, field_name,
\* details], the field name defaulting to the CSV name.
CsvColumns(columns) ==
    [x \in DOMAIN columns |->
        LET csv_name == columns[x][1]
            details == columns[x][2]
        IN <<csv_name,
             IF "field" \in DOMAIN details THEN details.field ELSE csv_name,
             details>>]

\* parser = VoyageEmailParser(database, csv_type, table_name, match_dict)
ParserInit ==
    /\ pc = "parser"
    /\ LET settings == types[i]
       IN IF "columns" \notin DOMAIN settings.load_csv
          THEN Raise("KeyError") /\ UNCHANGED parser
          ELSE /\ parser' = [table_name |-> table_name,
                             save_file_path |-> SaveFilePath(settings, match_dict),
                             csv_columns |-> CsvColumns(settings.load_csv.columns)]
               /\ pc' = "parser_process_message"
               /\ error' = error
    /\ UNCHANGED <<environment, database, files, result, csv_file_types, yielded,
                   message, email_from, subject, i, match_dict, table_name, content,
                   k, log>>

\* parser.process_message(message): the base class takes the CSV text from
\* the message and calls process_csv_content with it.
ParserProcessMessage ==
    /\ pc = "parser_process_message"
    /\ content' = MessageContent(message)
    /\ pc' = "process_csv_content"
    /\ UNCHANGED <<environment, database, files, result, error, csv_file_types,
                   yielded, message, email_from, subject, i, match_dict, table_name,
                   parser, k, log>>

\* process_csv_content that drops the table of the message when the archive
\* file cannot be written.
ProcessCsvContentDropsTable ==
    /\ pc = "process_csv_content"
    /\ IF parser.save_file_path # None
       THEN LET path == parser.save_file_path[1]
                dropped == [database EXCEPT !.tables =
                               [x \in DOMAIN @ \ {parser.table_name} |-> @[x]]]
            IN \E outcome \in {"written", "open fails", "write fails"} :
                /\ log' = Append(log, Event("write", yielded, i, path, content,
                                            outcome = "written"))
                /\ CASE outcome = "written" ->
                          /\ files' = DictSet(files, path, content)
                          /\ pc' = "process_csv_row"
                          /\ k' = 1
                          /\ error' = error
                          /\ database' = database
                     [] outcome = "open fails" ->
                          /\ Raise("OSError")
                          /\ database' = dropped
                          /\ UNCHANGED <<files, k>>
                     [] outcome = "write fails" ->
                          /\ files' = DictSet(files, path, "")
                          /\ Raise("OSError")
                          /\ database' = dropped
                          /\ UNCHANGED k
       ELSE /\ pc' = "process_csv_row"
            /\ k' = 1
            /\ UNCHANGED <<database, files, error, log>>
    /\ UNCHANGED <<environment, result, csv_file_types, yielded, message,
                   email_from, subject, i, match_dict, table_name, parser, content>>

\* process_csv_content: the CSV text is written to the archive file when the
\* parser has a path (open may fail, and so may write after open truncated
\* the file); then the base class starts on the records.
ProcessCsvContent ==
    /\ pc = "process_csv_content"
    /\ IF parser.save_file_path # None
       THEN LET path == parser.save_file_path[1]
            IN \E outcome \in {"written", "open fails", "write fails"} :
                /\ log' = Append(log, Event("write", yielded, i, path, content,
                                            outcome = "written"))
                /\ CASE outcome = "written" ->
                          /\ files' = DictSet(files, path, content)
                          /\ pc' = "process_csv_row"
                          /\ k' = 1
                          /\ error' = error
                     [] outcome = "open fails" ->
                          /\ Raise("OSError")
                          /\ UNCHANGED <<files, k>>
                     [] outcome = "write fails" ->
                          /\ files' = DictSet(files, path, "")
                          /\ Raise("OSError")
                          /\ UNCHANGED k
       ELSE /\ pc' = "process_csv_row"
            /\ k' = 1
            /\ UNCHANGED <<files, error, log>>
    /\ UNCHANGED <<environment, database, result, csv_file_types, yielded, message,
                   email_from, subject, i, match_dict, table_name, parser, content>>

\* None as the value of a field.
PyNone == [type |-> "NoneType"]

\* The skipped column that leaves None under its field name.
SkipColumnStoresNone(fields, field_name) == DictSet(fields, field_name, PyNone)

\* continue: a skipped column adds nothing to the fields.
SkipColumn(fields, field_name) == fields

\* process_csv_row, the loop over the columns from column x on: [ok, fields],
\* ok FALSE when strptime raised ValueError.
RECURSIVE CoerceFrom(_, _, _, _)
CoerceFrom(csv_row, csv_columns, x, fields) ==
    IF x > Len(csv_columns) THEN [ok |-> TRUE, fields |-> fields]
    ELSE LET csv_name == csv_columns[x][1]
             field_name == csv_columns[x][2]
             details == csv_columns[x][3]
         IN IF csv_name \notin DOMAIN csv_row \/ "type" \notin DOMAIN details
            THEN CoerceFrom(csv_row, csv_columns, x + 1, SkipColumn(fields, field_name))
            ELSE IF details.type = "datetime"
            THEN IF "csv_format" \notin DOMAIN details
                 THEN CoerceFrom(csv_row, csv_columns, x + 1,
                                 SkipColumn(fields, field_name))
                 ELSE LET parsed == Strptime(csv_row[csv_name], Strip(details.csv_format))
                      IN IF parsed.ok
                         THEN CoerceFrom(csv_row, csv_columns, x + 1,
                                         DictSet(fields, field_name, parsed.value))
                         ELSE [ok |-> FALSE, fields |-> fields]
            ELSE CoerceFrom(csv_row, csv_columns, x + 1,
                            DictSet(fields, field_name, PyStr(csv_row[csv_name])))

\* The loop over the columns that swallows the ValueError of strptime and
\* keeps the fields built so far.
CoerceSwallows(csv_row, csv_columns) ==
    [CoerceFrom(csv_row, csv_columns, 1, EmptyDict) EXCEPT !.ok = TRUE]

\* process_csv_row up to the insert: the fields of one CSV record.
Coerce(csv_row, csv_columns) == CoerceFrom(csv_row, csv_columns, 1, EmptyDict)

\* process_csv_row that inserts nothing when every column was skipped.
ProcessCsvRowSkipsEmpty ==
    /\ pc = "process_csv_row"
    /\ k <= Len(CsvRecords(content))
    /\ LET coerced == Coerce(CsvRecords(content)[k], parser.csv_columns)
       IN IF ~coerced.ok
          THEN Raise("ValueError") /\ UNCHANGED <<database, k, log>>
          ELSE IF DOMAIN coerced.fields = {}
          THEN /\ k' = NextRecord(k)
               /\ UNCHANGED <<database, pc, error, log>>
          ELSE \E ok \in BOOLEAN :
                /\ log' = Append(log, Event("insert_row", yielded, i, parser.table_name,
                                            [record |-> k, fields |-> coerced.fields],
                                            ok))
                /\ IF ok
                   THEN /\ database' =
                              [database EXCEPT !.rows =
                                  Append(@, <<parser.table_name, coerced.fields>>)]
                        /\ k' = NextRecord(k)
                        /\ UNCHANGED <<pc, error>>
                   ELSE Raise("StorageError") /\ UNCHANGED <<database, k>>
    /\ UNCHANGED <<environment, files, result, csv_file_types, yielded, message,
                   email_from, subject, i, match_dict, table_name, parser, content>>

\* process_csv_row for record k: the fields are built from the columns and
\* inserted into the parser's table (the insert may fail in the storage).
\* The base class lets an exception of process_csv_row through.
ProcessCsvRow ==
    /\ pc = "process_csv_row"
    /\ k <= Len(CsvRecords(content))
    /\ LET coerced == Coerce(CsvRecords(content)[k], parser.csv_columns)
       IN IF ~coerced.ok
          THEN Raise("ValueError") /\ UNCHANGED <<database, k, log>>
          ELSE \E ok \in BOOLEAN :
                /\ log' = Append(log, Event("insert_row", yielded, i, parser.table_name,
                                            [record |-> k, fields |-> coerced.fields],
                                            ok))
                /\ IF ok
                   THEN /\ database' =
                              [database EXCEPT !.rows =
                                  Append(@, <<parser.table_name, coerced.fields>>)]
                        /\ k' = NextRecord(k)
                        /\ UNCHANGED <<pc, error>>
                   ELSE Raise("StorageError") /\ UNCHANGED <<database, k>>
    /\ UNCHANGED <<environment, files, result, csv_file_types, yielded, message,
                   email_from, subject, i, match_dict, table_name, parser, content>>

\* The records are exhausted and parser.process_message returns;
\* process_message goes on at next_pc with the for loop at next_i.
FinishMessage(next_pc, next_i) ==
    /\ pc = "process_csv_row"
    /\ k > Len(CsvRecords(content))
    /\ pc' = next_pc
    /\ i' = next_i
    /\ log' = Append(log, Event("return", yielded, i, <<>>, <<>>, TRUE))
    /\ UNCHANGED <<environment, database, files, result, error, csv_file_types,
                   yielded, message, email_from, subject, match_dict, table_name,
                   parser, content, k>>

\* The for loop goes on with the next type after a message was processed.
ContinueAfterProcessed == FinishMessage("for", NextType(i))

\* return True: no other type is looked at, back in the loop of
\* process_emails.
ReturnTrue == FinishMessage("loop", i)

Next ==
    \/ ProcessEmailsStart
    \/ LoopNextMessage
    \/ LoopEnd
    \/ ProcessMessageEnter
    \/ CheckType
    \/ ReturnFalse
    \/ SaveTable
    \/ TableExists
    \/ CreateTable
    \/ ParserInit
    \/ ParserProcessMessage
    \/ ProcessCsvContent
    \/ ProcessCsvRow
    \/ ReturnTrue

Spec == Init /\ [][Next]_vars

\* ------------------------------------------------------------------- claims

\* The configured list of types as settings.yaml gives it.
Configured == settings_yaml[1]

Loaded == settings_yaml # None

\* A type accepts a message: its sender is the from address of the message
\* and its subject pattern matches the subject.
Accepts(csv_type, msg) ==
    /\ msg.From[2] = csv_type.check.from
    /\ RegexMatches(ReCompile(Join(csv_type.check.subject_regex)), msg.Subject)

\* The position of the first type of the configuration that accepts the
\* message, 0 when none does.
FirstAccepting(msg) ==
    IF \E x \in DOMAIN Configured : Accepts(Configured[x], msg)
    THEN CHOOSE x \in DOMAIN Configured :
            /\ Accepts(Configured[x], msg)
            /\ \A y \in 1..(x - 1) : ~Accepts(Configured[y], msg)
    ELSE 0

\* The table name a type's template gives for a message it accepts.
TableNameOf(csv_type, msg) ==
    Format(Strip(csv_type.save_table.file_name_format),
           GroupDict(ReCompile(Join(csv_type.check.subject_regex)), msg.Subject))

TableOps == {"table_exists", "create_table", "insert_row"}

\* The statements of process_message after a type accepted the message.
AfterMatch ==
    {"save_table", "table_exists", "create_table", "parser",
     "parser_process_message", "process_csv_content", "process_csv_row"}

\* C1: process_message selects the first type of the list whose sender
\* equals the from address and whose pattern matches the subject; every
\* table operation of the call uses that type's table name template and
\* columns, also when a later type would accept the message; False is
\* returned only when no type accepts.
C1_FirstAcceptingTypeIsUsed ==
    Loaded =>
        /\ pc \in AfterMatch => i = FirstAccepting(inbox[yielded])
        /\ \A m \in 1..yielded :
            LET msg == inbox[m]
                f == FirstAccepting(msg)
            IN \A p \in DOMAIN log :
                LET e == log[p]
                IN e.m = m =>
                    /\ e.op \in TableOps =>
                        /\ f # 0
                        /\ e.t = f
                        /\ e.name = TableNameOf(Configured[f], msg)
                        /\ e.op = "create_table" =>
                            e.arg = Configured[f].load_csv.columns
                        /\ e.op = "insert_row" =>
                            e.arg.fields =
                                Coerce(CsvRecords(msg.body)[e.arg.record],
                                       CsvColumns(Configured[f].load_csv.columns)).fields
                    /\ (e.op = "return" /\ ~e.ok) => f = 0

\* A row was inserted for the first type of a list whose second type, with
\* another table template, accepts the message too.
C1_Witness ==
    /\ Loaded
    /\ Len(Configured) = 2
    /\ \E p \in DOMAIN log :
        /\ log[p].op = "insert_row"
        /\ log[p].ok
        /\ log[p].t = 1
        /\ Accepts(Configured[2], inbox[log[p].m])
        /\ "save_table" \in DOMAIN Configured[2]
        /\ Configured[2].save_table # Configured[1].save_table

\* C2: create_table is issued at most once per table name over the run, and
\* the table keeps the columns it was created with: a later message that
\* resolves to the name finds the table and issues no create_table, whatever
\* the columns of its type.
C2_TableCreatedAtMostOnce ==
    \A q \in DOMAIN log :
        log[q].op = "create_table" =>
            /\ \A p \in 1..(q - 1) :
                log[p].op = "create_table" => log[p].name # log[q].name
            /\ log[q].ok =>
                /\ log[q].name \in DOMAIN database.tables
                /\ database.tables[log[q].name] = log[q].arg

\* A message created a table and a later message, matched by a type with
\* other columns, found the table and inserted a row into it.
C2_Witness ==
    /\ Loaded
    /\ \E p, q, r \in DOMAIN log :
        /\ p < q /\ q < r
        /\ log[p].op = "create_table" /\ log[p].ok
        /\ log[q].op = "table_exists" /\ log[q].ok
        /\ log[q].name = log[p].name
        /\ log[q].m > log[p].m
        /\ log[r].op = "insert_row" /\ log[r].ok /\ log[r].m = log[q].m
        /\ "columns" \in DOMAIN Configured[log[q].t].load_csv
        /\ Configured[log[q].t].load_csv.columns # log[p].arg

\* C3: for a message that no type accepts process_message returns False
\* without raising, and during the call no table_exists, create_table or
\* insert_row is issued and no archive file is written.
C3_NoMatchReturnsFalseWithoutEffects ==
    Loaded =>
        \A m \in 1..yielded :
            FirstAccepting(inbox[m]) = 0 =>
                /\ \A p \in DOMAIN log :
                    log[p].m = m =>
                        /\ log[p].op \in {"fetch", "sender", "compile", "match", "return"}
                        /\ log[p].op = "return" => ~log[p].ok
                /\ (m < yielded \/ pc \in {"loop", "returned"}) =>
                        \E p \in DOMAIN log :
                            log[p].m = m /\ log[p].op = "return" /\ ~log[p].ok
                /\ m = yielded => pc \in {"process_message", "for", "loop", "returned"}
                /\ m = yielded => error = ""

\* process_message returned False for a message whose sender a type has but
\* whose subject its pattern does not match.
C3_Witness ==
    /\ pc = "loop"
    /\ \E p, q \in DOMAIN log :
        /\ p < q
        /\ log[p].m = yielded /\ log[p].op = "match" /\ ~log[p].ok
        /\ log[q].m = yielded /\ log[q].op = "return" /\ ~log[q].ok

\* C4: once a type accepted a message, everything that follows for that
\* message concerns this type: no sender comparison, pattern match or table
\* operation of another type, whether the message is processed to the end
\* or fails after the match.
C4_NoTypeAfterTheAcceptingOne ==
    \A p \in DOMAIN log :
        (log[p].op = "match" /\ log[p].ok) =>
            /\ \A q \in (p + 1)..Len(log) :
                log[q].m = log[p].m => log[q].t = log[p].t
            /\ (log[p].m = yielded /\ pc \in AfterMatch) => i = log[p].t

\* The first message was processed to the end and the second failed after
\* its match, each accepted by the first type of a list whose second type
\* accepts it too.
C4_Witness ==
    /\ Loaded
    /\ pc = "raised"
    /\ yielded = 2
    /\ Len(Configured) = 2
    /\ Accepts(Configured[2], inbox[1])
    /\ Accepts(Configured[2], inbox[2])
    /\ \E p, q \in DOMAIN log :
        /\ log[p].m = 1 /\ log[p].op = "return" /\ log[p].ok /\ log[p].t = 1
        /\ log[q].m = 2 /\ log[q].op = "match" /\ log[q].ok /\ log[q].t = 1

\* The per-message state a statement belongs to: 1 Unclassified, 2 Classified,
\* 3 SchemaEnsured, 4 rows being persisted, 5 done (returned or failed);
\* 0 before the first message.
MessageState ==
    CASE pc = "start" -> 0
      [] pc \in {"process_message", "for"} -> 1
      [] pc \in {"save_table", "table_exists", "create_table"} -> 2
      [] pc \in {"parser", "parser_process_message", "process_csv_content"} -> 3
      [] pc = "process_csv_row" -> 4
      [] pc \in {"loop", "returned", "raised"} -> 5

\* The place of an operation in the order of one message.
Rank(op) ==
    CASE op \in {"sender", "compile", "match"} -> 1
      [] op = "table_exists" -> 2
      [] op = "create_table" -> 3
      [] op = "write" -> 4
      [] op = "insert_row" -> 5
      [] op = "return" -> 6
      [] OTHER -> 0

\* The operations of a message are logged in the order classification,
\* table_exists, create_table, archive, inserts, return, with one
\* table_exists and one create_table at most; a create_table directly follows
\* the table_exists of its table and an insert_row has the table_exists of
\* its table before it.
LogInOrder ==
    \A q \in DOMAIN log :
        /\ q > 1 =>
            /\ log[q - 1].m <= log[q].m
            /\ log[q - 1].m = log[q].m =>
                /\ Rank(log[q - 1].op) <= Rank(log[q].op)
                /\ log[q].op \in {"table_exists", "create_table", "write", "return"}
                    => Rank(log[q - 1].op) < Rank(log[q].op)
        /\ log[q].op = "create_table" =>
            /\ log[q - 1].op = "table_exists" /\ log[q - 1].ok
            /\ log[q - 1].m = log[q].m /\ log[q - 1].name = log[q].name
        /\ log[q].op = "insert_row" =>
            \E p \in 1..(q - 1) :
                /\ log[p].op = "table_exists" /\ log[p].ok
                /\ log[p].m = log[q].m /\ log[p].name = log[q].name

\* C5: a message passes through Unclassified, Classified, SchemaEnsured and
\* RowsPersisted in this order (or leaves Unclassified with no match) and
\* never goes back; its inserts come after the table_exists check and the
\* create_table of its table, and neither call follows an insert of it.
C5_MessageStatesInOrder ==
    [][/\ yielded' = yielded => MessageState' >= MessageState
       /\ LogInOrder'
       /\ pc' \in {"parser", "parser_process_message", "process_csv_content",
                   "process_csv_row"}
            => table_name' \in DOMAIN database'.tables]_vars

\* A message went through all the states: its table was checked and created,
\* two rows were inserted and True was returned.
C5_Witness ==
    /\ pc = "loop"
    /\ \E p \in DOMAIN log :
        /\ log[p].op = "create_table" /\ log[p].ok /\ log[p].m = yielded
        /\ \E q \in (p + 1)..Len(log) :
            /\ log[q].op = "insert_row" /\ log[q].ok /\ log[q].arg.record = 2
            /\ log[q].m = yielded
        /\ log[Len(log)].op = "return" /\ log[Len(log)].ok

\* A column of the specification for which the record has a datetime text
\* that does not conform to the configured format.
BadDate(rec, columns) ==
    \E x \in DOMAIN columns :
        LET csv_name == columns[x][1]
            details == columns[x][2]
        IN /\ csv_name \in DOMAIN rec
           /\ "type" \in DOMAIN details
           /\ details.type = "datetime"
           /\ "csv_format" \in DOMAIN details
           /\ ~Strptime(rec[csv_name], Strip(details.csv_format)).ok

\* The position of the first record with a nonconforming datetime text, 0
\* when there is none.
FirstBad(records, columns) ==
    IF \E r \in DOMAIN records : BadDate(records[r], columns)
    THEN CHOOSE r \in DOMAIN records :
            /\ BadDate(records[r], columns)
            /\ \A r2 \in 1..(r - 1) : ~BadDate(records[r2], columns)
    ELSE 0

IsInserted(e) == e.op = "insert_row" /\ e.ok

\* C6: when record k of a message has a datetime text that does not conform
\* to the format of its column, the error leaves process_message (the run
\* never gets past that message), insert_row is issued for the records
\* before k only, and the rows of those stay in the table.  A ValueError
\* arises in no other case.
C6_BadDateAbortsTheRows ==
    Loaded =>
        /\ \A m \in 1..yielded :
            LET f == FirstAccepting(inbox[m])
            IN (f # 0 /\ "columns" \in DOMAIN Configured[f].load_csv) =>
                LET bad == FirstBad(CsvRecords(inbox[m].body),
                                    Configured[f].load_csv.columns)
                IN /\ bad # 0 =>
                        /\ m = yielded
                        /\ pc \notin {"loop", "returned"}
                        /\ \A p \in DOMAIN log :
                            (log[p].m = m /\ log[p].op = "insert_row")
                                => log[p].arg.record < bad
                        /\ error = "ValueError" =>
                            /\ pc = "raised"
                            /\ k = bad
                            /\ \A r \in 1..(bad - 1) :
                                \E p \in DOMAIN log :
                                    /\ IsInserted(log[p])
                                    /\ log[p].m = m
                                    /\ log[p].arg.record = r
                   /\ (error = "ValueError" /\ m = yielded) => bad # 0
        /\ error = "ValueError" => FirstAccepting(inbox[yielded]) # 0
        /\ LET inserted == SelectSeq(log, IsInserted)
           IN /\ Len(database.rows) = Len(inserted)
              /\ \A x \in DOMAIN inserted :
                    database.rows[x] = <<inserted[x].name, inserted[x].arg.fields>>

\* The second record of a message failed on its date after the row of the
\* first record was inserted.
C6_Witness ==
    /\ pc = "raised"
    /\ error = "ValueError"
    /\ k = 2
    /\ Len(log) > 0
    /\ IsInserted(log[Len(log)])
    /\ log[Len(log)].m = yielded
    /\ Len(database.rows) > 0
    /\ database.rows[Len(database.rows)][1] = table_name

\* A column adds its field: the record has its CSV name, and the column has
\* a type and, when the type is datetime, a format.
Qualifies(rec, column) ==
    /\ column[1] \in DOMAIN rec
    /\ "type" \in DOMAIN column[2]
    /\ column[2].type = "datetime" => "csv_format" \in DOMAIN column[2]

\* The field name of a column of the specification.
FieldOf(column) ==
    IF "field" \in DOMAIN column[2] THEN column[2].field ELSE column[1]

C8_MessagesInOrderOneAtATime ==
    /\ yielded > 0 => message = inbox[yielded]
    /\ \A q \in DOMAIN log :
        /\ q > 1 => log[q - 1].m <= log[q].m
        /\ log[q].op = "fetch" =>
            /\ log[q].m = 1 => log[q - 1].op = "select_inbox"
            /\ log[q].m > 1 =>
                /\ log[q - 1].op = "return"
                /\ log[q - 1].m = log[q].m - 1
        /\ (log[q].op = "return" /\ ~log[q].ok) =>
            IF q < Len(log)
            THEN log[q + 1].op = "fetch" /\ log[q + 1].m = log[q].m + 1
            ELSE \/ pc = "loop"
                 \/ pc = "returned" /\ yielded = Len(inbox)
    /\ (pc = "loop" /\ yielded < Len(inbox)) => ENABLED LoopNextMessage
    /\ (pc = "returned" /\ Loaded) =>
        /\ yielded = Len(inbox)
        /\ \A m \in 1..Len(inbox) :
            \E q \in DOMAIN log : log[q].op = "return" /\ log[q].m = m
    /\ (pc = "raised" /\ Loaded) => FirstAccepting(inbox[yielded]) # 0

\* The run returned after a first message that no type accepted and a second
\* message of which a row was inserted.
C8_Witness ==
    /\ pc = "returned"
    /\ yielded = 2
    /\ \E p \in DOMAIN log :
        /\ log[p].op = "return" /\ ~log[p].ok /\ log[p].m = 1
        /\ \E q \in (p + 1)..Len(log) :
            log[q].op = "insert_row" /\ log[q].ok /\ log[q].m = 2

\* The run is over: process_emails returned or an exception left it.
RunEnded == pc \in {"returned", "raised"}

\* The settings of a type that make process_message raise KeyError for a
\* message the type accepts: no save_table, a table name template with a
\* capture the subject pattern does not give, or no columns.
RaisesKeyError(csv_type, msg) ==
    \/ "save_table" \notin DOMAIN csv_type
    \/ "file_name_format" \notin DOMAIN csv_type.save_table
    \/ FormatRaises(Strip(csv_type.save_table.file_name_format),
                    GroupDict(ReCompile(Join(csv_type.check.subject_regex)),
                              msg.Subject))
    \/ "columns" \notin DOMAIN csv_type.load_csv

\* C9 as stated: a KeyError raised while a message is processed aborts that
\* message only, so that a run in which one was raised still ends with every
\* message of the inbox fetched.
C9_ConfigurationErrorAbortsOnlyTheMessage ==
    (RunEnded /\ error = "KeyError") => yielded = Len(inbox)

\* C9, amended: a KeyError that process_message raises (the table name
\* template references an undefined capture, or the save_table or columns
\* setting is missing) aborts the current message before any row of it is
\* inserted and leaves process_emails: the run ends there, without a return
\* value, and no later message is fetched.
C9_ConfigurationErrorEndsTheRun ==
    Loaded =>
        /\ error = "KeyError" =>
            /\ pc = "raised"
            /\ result = None
            /\ ~ENABLED Next
            /\ FirstAccepting(message) # 0
            /\ RaisesKeyError(Configured[FirstAccepting(message)], message)
            /\ \A p \in DOMAIN log :
                log[p].m = yielded => log[p].op # "insert_row"
        /\ \A m \in 1..yielded :
            LET f == FirstAccepting(inbox[m])
            IN (f # 0 /\ RaisesKeyError(Configured[f], inbox[m])) =>
                /\ m = yielded
                /\ pc \notin {"loop", "returned"}

\* A KeyError ended the run while a message of the inbox was not yet fetched.
C9_Witness ==
    /\ pc = "raised"
    /\ error = "KeyError"
    /\ yielded < Len(inbox)

\* A call of a collaborator that failed.
FailedCall(e) ==
    /\ e.op \in {"table_exists", "create_table", "insert_row", "write"}
    /\ ~e.ok

\* C10: an error raised while a message is processed is caught neither by
\* process_message nor by the loop of process_emails: the run ends with it,
\* without a return value; the failed call is not made again and nothing is
\* done after it, so that no later message is processed.
C10_ErrorsLeaveProcessEmails ==
    /\ error # "" =>
        /\ pc = "raised"
        /\ result = None
        /\ ~ENABLED Next
    /\ pc = "raised" => error \in {"KeyError", "ValueError", "StorageError", "OSError"}
    /\ \A p \in DOMAIN log :
        FailedCall(log[p]) =>
            /\ p = Len(log)
            /\ pc = "raised"
            /\ error = IF log[p].op = "write" THEN "OSError" ELSE "StorageError"

\* An insert failed in the storage and ended the run while a message of the
\* inbox was not yet fetched.
C10_Witness ==
    /\ pc = "raised"
    /\ error = "StorageError"
    /\ yielded < Len(inbox)
    /\ Len(log) > 0
    /\ log[Len(log)].op = "insert_row"
    /\ ~log[Len(log)].ok

\* C11: when get_csv_file_types returns None, process_emails reports the
\* error and returns False before a client is opened: the run consists of
\* the error report alone, no inbox is selected, no message is fetched, no
\* storage call is issued and no file is written; False is returned in no
\* other case.
C11_UnloadedConfigurationOpensNothing ==
    /\ ~Loaded =>
        /\ pc \in {"start", "returned"}
        /\ pc = "start" => log = <<>> /\ result = None
        /\ pc = "returned" =>
            /\ result = Some(FALSE)
            /\ Len(log) = 1
            /\ log[1].op = "error"
        /\ \A q \in DOMAIN log :
            log[q].op \notin {"get_database_client", "get_email_client",
                              "select_inbox", "fetch", "table_exists",
                              "create_table", "insert_row", "write"}
        /\ yielded = 0
        /\ message = NoMessage
        /\ database = [tables |-> InitialTables, rows |-> <<>>]
        /\ files = EmptyDict
        /\ error = ""
    /\ result = Some(FALSE) => ~Loaded

\* process_emails returned False with messages waiting in the inbox.
C11_Witness ==
    /\ ~Loaded
    /\ pc = "returned"
    /\ result = Some(FALSE)
    /\ Len(inbox) = MaxInbox

\* The table name template of the type references a capture that the
\* subject pattern does not give for the message.
UndefinedCapture(csv_type, msg) ==
    /\ "save_table" \in DOMAIN csv_type
    /\ "file_name_format" \in DOMAIN csv_type.save_table
    /\ FormatRaises(Strip(csv_type.save_table.file_name_format),
                    GroupDict(ReCompile(Join(csv_type.check.subject_regex)),
                              msg.Subject))

\* C12: when the table name template of the matched type references a
\* capture that the subject did not give, format raises KeyError right after
\* the match: no table_exists, create_table or insert_row (and no archive
\* write) is issued for that message, no table name is set and the storage
\* is as the earlier messages left it.
C12_UndefinedCaptureRaisesBeforeTheTable ==
    Loaded =>
        \A m \in 1..yielded :
            LET f == FirstAccepting(inbox[m])
            IN (f # 0 /\ UndefinedCapture(Configured[f], inbox[m])) =>
                /\ m = yielded
                /\ pc \in {"process_message", "for", "save_table", "raised"}
                /\ \A p \in DOMAIN log :
                    log[p].m = m => log[p].op \notin (TableOps \cup {"write"})
                /\ pc = "raised" =>
                    /\ error = "KeyError"
                    /\ i = f
                    /\ log[Len(log)].op = "match"
                    /\ log[Len(log)].ok
                    /\ log[Len(log)].m = m
                    /\ log[Len(log)].t = f
                /\ \A x \in DOMAIN database.rows :
                    \E p \in DOMAIN log :
                        /\ IsInserted(log[p])
                        /\ log[p].m < m
                        /\ log[p].name = database.rows[x][1]

\* The second message of the inbox was accepted by a type whose table name
\* template names a capture the subject does not give, after a row of the
\* first message was inserted: format raised.
C12_Witness ==
    /\ Loaded
    /\ pc = "raised"
    /\ error = "KeyError"
    /\ yielded = 2
    /\ FirstAccepting(message) # 0
    /\ UndefinedCapture(Configured[FirstAccepting(message)], message)
    /\ Len(database.rows) > 0

\* The type declares a template for the path of the archive file.
DeclaresSavePath(csv_type) ==
    /\ "save_csv" \in DOMAIN csv_type
    /\ "file_name_format" \in DOMAIN csv_type.save_csv

\* C13: when the matched type declares a template for the archive path, the
\* CSV text of the message was written as it is, to the path made from the
\* template and the captures, before the first insert_row of the message;
\* when the type declares none, no file is written for the message.
C13_DeclaredArchiveIsWrittenBeforeTheRows ==
    Loaded =>
        \A q \in DOMAIN log :
            log[q].op = "insert_row" =>
                LET csv_type == Configured[log[q].t]
                    msg == inbox[log[q].m]
                    captures == GroupDict(ReCompile(Join(csv_type.check.subject_regex)),
                                          msg.Subject)
                IN IF DeclaresSavePath(csv_type)
                   THEN \E p \in 1..(q - 1) :
                            /\ log[p].op = "write"
                            /\ log[p].ok
                            /\ log[p].m = log[q].m
                            /\ log[p].arg = MessageContent(msg)
                            /\ LET template == Strip(csv_type.save_csv.file_name_format)
                               IN ~FormatRaises(template, captures) =>
                                    log[p].name = PathJoin(CSV_FOLDER,
                                                           Format(template, captures))
                   ELSE \A p \in DOMAIN log :
                            log[p].m = log[q].m => log[p].op # "write"

\* C14: in one run the subject pattern of a type is compiled at most once:
\* the first message whose sender is the type's compiles it, right after the
\* sender comparison, and stores it in the type; every evaluation of the
\* type matches with the stored pattern, also after a subject that did not
\* match.
C14_PatternCompiledAtMostOnce ==
    Loaded =>
        /\ \A q \in DOMAIN log :
            /\ log[q].op = "compile" =>
                /\ \A p \in 1..(q - 1) :
                    ~(log[p].t = log[q].t /\ log[p].op \in {"compile", "match"})
                /\ log[q - 1].op = "sender"
                /\ log[q - 1].ok
                /\ log[q - 1].t = log[q].t
                /\ log[q - 1].m = log[q].m
                /\ log[q + 1].op = "match"
                /\ log[q + 1].t = log[q].t
            /\ log[q].op = "match" =>
                /\ \E p \in 1..(q - 1) :
                    log[p].op = "compile" /\ log[p].t = log[q].t
                /\ csv_file_types # None =>
                    /\ "subject_regex_compiled" \in DOMAIN types[log[q].t].check
                    /\ log[q].ok =
                        RegexMatches(types[log[q].t].check.subject_regex_compiled,
                                     inbox[log[q].m].Subject)
        /\ csv_file_types # None =>
            \A t \in DOMAIN types :
                "subject_regex_compiled" \in DOMAIN types[t].check =>
                    /\ types[t].check.subject_regex_compiled =
                        ReCompile(Join(Configured[t].check.subject_regex))
                    /\ \E p \in DOMAIN log :
                        log[p].op = "compile" /\ log[p].t = t

\* A type was evaluated for two messages, the subject of the first did not
\* match, and its pattern was compiled for the first of them only.
C14_Witness ==
    \E p \in DOMAIN log :
        /\ log[p].op = "match"
        /\ ~log[p].ok
        /\ log[p - 1].op = "compile"
        /\ \E q \in (p + 1)..Len(log) :
            /\ log[q].op = "match"
            /\ log[q].t = log[p].t
            /\ log[q].m > log[p].m
            /\ log[q].ok
            /\ log[q - 1].op = "sender"

\* The insert_row calls of message m, in the order of the log.
InsertsOf(m) ==
    SelectSeq(log, LAMBDA e : e.op = "insert_row" /\ e.m = m)

\* C15: the insert_row calls of a message are made in the order of the CSV
\* records, one per record, with the table name made for the message and the
\* fields coerced from the record, also when every column of the record was
\* skipped and the fields are empty; a message that was processed to its end
\* has one successful insert_row for every record of its CSV text.
C15_OneInsertPerRecordInOrder ==
    Loaded =>
        /\ \A m \in 1..yielded :
            LET f == FirstAccepting(inbox[m])
                inserts == InsertsOf(m)
                records == CsvRecords(MessageContent(inbox[m]))
            IN /\ Len(inserts) <= Len(records)
               /\ \A r \in DOMAIN inserts :
                    /\ f # 0
                    /\ inserts[r].arg.record = r
                    /\ inserts[r].name = TableNameOf(Configured[f], inbox[m])
                    /\ inserts[r].arg.fields =
                        Coerce(records[r], CsvColumns(Configured[f].load_csv.columns)).fields
                    /\ r < Len(inserts) => inserts[r].ok
               /\ (\E q \in DOMAIN log :
                        log[q].op = "return" /\ log[q].m = m /\ log[q].ok) =>
                    /\ Len(inserts) = Len(records)
                    /\ inserts[Len(inserts)].ok
                    /\ FirstBad(records, Configured[f].load_csv.columns) = 0
        /\ pc = "process_csv_row" => k = Len(InsertsOf(yielded)) + 1

\* A message was processed to its end and the row of one of its records was
\* inserted with no field at all.
C15_Witness ==
    \E q \in DOMAIN log :
        /\ log[q].op = "return"
        /\ log[q].ok
        /\ \E p \in 1..(q - 1) :
            /\ IsInserted(log[p])
            /\ log[p].m = log[q].m
            /\ DOMAIN log[p].arg.fields = {}

\* The value process_csv_row stores for a column that is not skipped.
ValueOf(rec, column) ==
    IF column[2].type = "datetime"
    THEN Strptime(rec[column[1]], Strip(column[2].csv_format)).value
    ELSE PyStr(rec[column[1]])

\* The position of the last column of the specification with the field name
\* that is not skipped for the record.
LastQualifying(rec, columns, name) ==
    CHOOSE x \in DOMAIN columns :
        /\ FieldOf(columns[x]) = name
        /\ Qualifies(rec, columns[x])
        /\ \A y \in (x + 1)..Len(columns) :
            ~(FieldOf(columns[y]) = name /\ Qualifies(rec, columns[y]))

\* C16: when several columns have one field name, the inserted row holds for
\* the field the value of the last of them, in the order of the
\* configuration, that was not skipped; a later column of the same field
\* name that is skipped leaves the value.
C16_LastUnskippedColumnWins ==
    Loaded =>
        \A p \in DOMAIN log :
            log[p].op = "insert_row" =>
                LET rec == CsvRecords(inbox[log[p].m].body)[log[p].arg.record]
                    columns == Configured[log[p].t].load_csv.columns
                    fields == log[p].arg.fields
                IN /\ \A x \in DOMAIN columns :
                        Qualifies(rec, columns[x]) =>
                            FieldOf(columns[x]) \in DOMAIN fields
                   /\ \A name \in DOMAIN fields :
                        fields[name] =
                            ValueOf(rec, columns[LastQualifying(rec, columns, name)])

\* A row was inserted from a record with two columns of one field name and
\* different values, followed by a skipped column of the same field name:
\* the field has the value of the second column.
C16_Witness ==
    \E p \in DOMAIN log :
        /\ IsInserted(log[p])
        /\ LET rec == CsvRecords(inbox[log[p].m].body)[log[p].arg.record]
               columns == Configured[log[p].t].load_csv.columns
               fields == log[p].arg.fields
           IN \E x, y, z \in DOMAIN columns :
                /\ x < y /\ y < z
                /\ FieldOf(columns[x]) = FieldOf(columns[y])
                /\ FieldOf(columns[y]) = FieldOf(columns[z])
                /\ Qualifies(rec, columns[x])
                /\ Qualifies(rec, columns[y])
                /\ ~Qualifies(rec, columns[z])
                /\ rec[columns[x][1]] # rec[columns[y][1]]
                /\ fields[FieldOf(columns[y])] = PyStr(rec[columns[y][1]])

\* A dict without one of its keys.
Without(d, key) == [x \in DOMAIN d \ {key} |-> d[x]]

\* The sender of the type was compared with the from address of a message
\* and was equal to it.
SenderMatched(t) ==
    \E p \in DOMAIN log :
        /\ log[p].op = "sender"
        /\ log[p].ok
        /\ log[p].t = t
        /\ inbox[log[p].m].From[2] = Configured[t].check.from

\* C17: process_message changes the list of types only by adding the
\* compiled pattern to the check of a type whose sender was the from address
\* of a message: the list keeps its length and order, every type keeps its
\* sender, pattern text, templates and columns, and a type whose sender was
\* never that of a message has no compiled pattern.
C17_OnlyTheCompiledPatternIsAdded ==
    /\ (~Loaded \/ pc = "start") => csv_file_types = None
    /\ (Loaded /\ csv_file_types # None) =>
        /\ Len(types) = Len(Configured)
        /\ \A t \in DOMAIN types :
            /\ DOMAIN types[t] = DOMAIN Configured[t]
            /\ Without(types[t], "check") = Without(Configured[t], "check")
            /\ DOMAIN types[t].check \ {"subject_regex_compiled"} =
                DOMAIN Configured[t].check
            /\ Without(types[t].check, "subject_regex_compiled") =
                Configured[t].check
            /\ "subject_regex_compiled" \in DOMAIN types[t].check
                <=> SenderMatched(t)

\* The run returned with the compiled pattern in one type of the list and
\* none in another type, whose sender was compared with a message and
\* differed.
C17_Witness ==
    /\ Loaded
    /\ pc = "returned"
    /\ \E t1, t2 \in DOMAIN types :
        /\ "subject_regex_compiled" \in DOMAIN types[t1].check
        /\ "subject_regex_compiled" \notin DOMAIN types[t2].check
        /\ \E p \in DOMAIN log :
            log[p].op = "sender" /\ ~log[p].ok /\ log[p].t = t2

\* create_table was issued for message m and succeeded.
CreatedFor(m) ==
    \E p \in DOMAIN log :
        log[p].op = "create_table" /\ log[p].ok /\ log[p].m = m

\* The number of rows the messages before m inserted.
RowsBefore(m) ==
    Len(SelectSeq(log, LAMBDA e : IsInserted(e) /\ e.m < m))

\* C18: a table that was created stays created with its columns, also when a
\* later step of the creating message fails (the archive write, or the
\* coercion or the insertion of a record): the error leaves process_emails,
\* and when no record of the message was inserted before the failure the
\* storage holds the table and no row of that message.
C18_CreatedTableOutlivesTheFailure ==
    /\ \A p \in DOMAIN log :
        (log[p].op = "create_table" /\ log[p].ok) =>
            /\ log[p].name \in DOMAIN database.tables
            /\ database.tables[log[p].name] = log[p].arg
    /\ (pc = "raised" /\ CreatedFor(yielded)) =>
        /\ error \in {"OSError", "ValueError", "StorageError"}
        /\ result = None
        /\ ~ENABLED Next
        /\ table_name \in DOMAIN database.tables
        /\ (\A p \in DOMAIN log : ~(IsInserted(log[p]) /\ log[p].m = yielded)) =>
            Len(database.rows) = RowsBefore(yielded)

\* The table of a message was created, the archive write of the message
\* failed, and the run ended with the table in the storage and no row in it.
C18_Witness ==
    /\ pc = "raised"
    /\ error = "OSError"
    /\ CreatedFor(yielded)
    /\ table_name \in DOMAIN database.tables
    /\ \A x \in DOMAIN database.rows : database.rows[x][1] # table_name

=============================================================================
